---- MODULE Spec2Model ----
(***************************************************************************)
(* graphnet: the Task base class (models/task/task.py).                    *)
(*                                                                         *)
(* A task is constructed with at most one transform scheme, is driven by   *)
(* forward / compute_loss once per batch, and is switched once into        *)
(* inference mode.  Tensors are modelled elementwise by one element.       *)
(***************************************************************************)
EXTENDS Integers, Sequences, FiniteSets, TLC

(***************************************************************************)
(* Numbers.  An element is <<kind, s, n, d>>:                              *)
(*   <<"fin", s, n, d>>  the real  s * 10^(n / 2^d),  s in {1, -1},        *)
(*                       n / 2^d in lowest terms (d = 0 or n odd);         *)
(*   <<"zero", 0, 0, 0>> zero;  <<"inf", s, 0, 0>>  +/- infinity;          *)
(*   <<"nan", 0, 0, 0>>  NaN.                                              *)
(* This holds the test vector of Task.__init__ exactly and is closed under *)
(* the transforms of the library below.                                    *)
(***************************************************************************)
Zero == <<"zero", 0, 0, 0>>
PInf == <<"inf", 1, 0, 0>>
NInf == <<"inf", -1, 0, 0>>
NaN == <<"nan", 0, 0, 0>>

RECURSIVE Pow2(_)
Pow2(d) == IF d = 0 THEN 1 ELSE 2 * Pow2(d - 1)

RECURSIVE Fin(_, _, _)
Fin(s, n, d) ==
    IF d > 0 /\ n % 2 = 0 THEN Fin(s, n \div 2, d - 1) ELSE <<"fin", s, n, d>>

Pow10(s, k) == Fin(s, k, 0)

kind(v) == v[1]

\* torch.isfinite, elementwise
isfinite(v) == kind(v) \in {"fin", "zero"}

(***************************************************************************)
(* The callables a caller can hand to Task.__init__.  None is the absent   *)
(* argument; "id" is also what the constructor's own `lambda x: x` is.     *)
(***************************************************************************)
None == "None"
Identity == "id"
Callables == {"id", "neg", "mul10", "div10", "recip", "negrecip", "abs", "sq", "sqrt"}
OptCallables == Callables \cup {None}

Neg(v) ==
    CASE kind(v) = "fin" -> <<"fin", -v[2], v[3], v[4]>>
      [] kind(v) = "inf" -> <<"inf", -v[2], 0, 0>>
      [] OTHER -> v

\* x * 10^k
Scale(v, k) ==
    IF kind(v) = "fin" THEN Fin(v[2], v[3] + k * Pow2(v[4]), v[4]) ELSE v

\* 1 / x   (1 / 0 = +inf, 1 / +-inf = 0)
Recip(v) ==
    CASE kind(v) = "fin" -> <<"fin", v[2], -v[3], v[4]>>
      [] kind(v) = "zero" -> PInf
      [] kind(v) = "inf" -> Zero
      [] OTHER -> v

Abs(v) ==
    CASE kind(v) = "fin" -> <<"fin", 1, v[3], v[4]>>
      [] kind(v) = "inf" -> PInf
      [] OTHER -> v

\* x ** 2
Sq(v) ==
    CASE kind(v) = "fin" -> Fin(1, 2 * v[3], v[4])
      [] kind(v) = "inf" -> PInf
      [] OTHER -> v

\* sqrt(x)   (NaN for x < 0)
Sqrt(v) ==
    CASE kind(v) = "fin" /\ v[2] = 1 -> Fin(1, v[3], v[4] + 1)
      [] kind(v) = "fin" /\ v[2] = -1 -> NaN
      [] kind(v) = "inf" /\ v[2] = -1 -> NaN
      [] OTHER -> v

\* f(v) for a callable f
Call(f, v) ==
    CASE f = "id" -> v
      [] f = "neg" -> Neg(v)
      [] f = "mul10" -> Scale(v, 1)
      [] f = "div10" -> Scale(v, -1)
      [] f = "recip" -> Recip(v)
      [] f = "negrecip" -> Neg(Recip(v))
      [] f = "abs" -> Abs(v)
      [] f = "sq" -> Sq(v)
      [] f = "sqrt" -> Sqrt(v)

(***************************************************************************)
(* The invertibility check of Task.__init__ (lines 43-50).                 *)
(***************************************************************************)
LogspaceStart == -6
LogspaceStop == 6
LogspaceNum == 13

\* np.logspace(start, stop, num) for an integer step: 10^start .. 10^stop
logspace(start, stop, num) ==
    [i \in 1..num |-> Pow10(1, start + (i - 1) * ((stop - start) \div (num - 1)))]

Reversed(s) == [i \in 1..Len(s) |-> s[Len(s) + 1 - i]]

\* np.concatenate([-x_test[::-1], [0], x_test])
x_test ==
    LET x == logspace(LogspaceStart, LogspaceStop, LogspaceNum)
        r == Reversed(x)
    IN  [i \in 1..Len(r) |-> Neg(r[i])] \o <<Zero>> \o x

\* t_test = transform_target(x_test), elementwise
t_test(transform_target) ==
    [i \in 1..Len(x_test) |-> Call(transform_target, x_test[i])]

\* valid = torch.isfinite(t_test): the positions kept by [valid]
valid(transform_target) ==
    {i \in 1..Len(x_test) : isfinite(t_test(transform_target)[i])}

(***************************************************************************)
(* torch.allclose on one element: |a - b| <= atol + rtol * |b| with the    *)
(* defaults atol = 1e-8, rtol = 1e-5; NaN is close to nothing, an infinity *)
(* only to itself.  b is a test point: 0 or +-10^k with k >= -6.  Two      *)
(* distinct elements of this domain with b # 0 differ by at least          *)
(* |b| * (1 - 10^(-1/2^d)), far above rtol * |b| for the small d that two  *)
(* applications of a library transform can produce, so they are close only *)
(* when equal; against b = 0 a finite a is close iff |a| <= 10^AtolExp.    *)
(***************************************************************************)
AtolExp == -8

close(a, b) ==
    \/ a = b /\ kind(a) # "nan"
    \/ /\ b = Zero
       /\ kind(a) = "fin"
       /\ a[3] <= AtolExp * Pow2(a[4])

\* torch.allclose(transform_inference(t_test)[valid], x_test[valid])
allclose(transform_target, transform_inference) ==
    \A i \in valid(transform_target) :
        close(Call(transform_inference, t_test(transform_target)[i]), x_test[i])

(***************************************************************************)
(* The names bound in the module task.py when Task.__init__ runs: its      *)
(* imports (lines 1-15) and its class.  A name outside this set raises     *)
(* NameError when evaluated.                                               *)
(***************************************************************************)
ModuleGlobals ==
    {"abstractmethod", "Union", "Callable", "Optional", "final",
     "LightningModule", "Tensor", "Linear", "Data", "LossFunction", "Task"}

\* The attributes class Task defines (a lookup of any other raises AttributeError)
TaskMethods ==
    {"nb_inputs", "__init__", "forward", "_transform_prediction", "_forward",
     "compute_loss", "inference"}

\* Exceptions
NoError == "no error"
AssertAtMostOne ==
    "AssertionError: Please specify at most one of transform_prediction_and_target and transform_target"
AssertBoth ==
    "AssertionError: Please specify both transform_inference and transform_target"
AssertNotInverse ==
    "AssertionError: The provided transforms for targets during training and predictions during inference at not inverse."
NameError == "NameError"
AttributeError == "AttributeError"
KeyError == "KeyError"
TypeError == "TypeError"

\* Checks with the first assertion left out
Checks_without_at_most_one(transform_prediction_and_target, transform_target, transform_inference) ==
    IF ~((transform_target # None) = (transform_inference # None))
    THEN AssertBoth
    ELSE IF transform_target # None THEN NameError ELSE NoError

\* Checks with the second assertion left out
Checks_without_both(transform_prediction_and_target, transform_target, transform_inference) ==
    IF transform_prediction_and_target # None /\ transform_target # None
    THEN AssertAtMostOne
    ELSE IF transform_target # None THEN NameError ELSE NoError

\* Checks entering the invertibility check for either scheme
Checks_on_either_scheme(transform_prediction_and_target, transform_target, transform_inference) ==
    IF transform_prediction_and_target # None /\ transform_target # None
    THEN AssertAtMostOne
    ELSE IF ~((transform_target # None) = (transform_inference # None))
    THEN AssertBoth
    ELSE IF transform_target # None \/ transform_prediction_and_target # None
    THEN NameError
    ELSE NoError

\* The checks of Task.__init__ (lines 38-50): the exception raised, or NoError
Checks(transform_prediction_and_target, transform_target, transform_inference) ==
    IF transform_prediction_and_target # None /\ transform_target # None
    THEN AssertAtMostOne
    ELSE IF ~((transform_target # None) = (transform_inference # None))
    THEN AssertBoth
    ELSE IF transform_target # None
    THEN IF ~({"np", "torch"} \subseteq ModuleGlobals)
         THEN NameError
         ELSE IF ~allclose(transform_target, transform_inference)
         THEN AssertNotInverse
         ELSE NoError
    ELSE NoError

\* MemberTransforms with the two prediction transforms of each scheme exchanged
MemberTransforms_exchanged(transform_prediction_and_target, transform_target, transform_inference) ==
    IF transform_prediction_and_target # None
    THEN <<Identity, transform_prediction_and_target, transform_prediction_and_target>>
    ELSE IF transform_target # None
    THEN <<transform_inference, Identity, transform_target>>
    ELSE <<Identity, Identity, Identity>>

\* The member transforms set by Task.__init__ (lines 55-66):
\* <<_transform_prediction_training, _transform_prediction_inference, _transform_target>>
MemberTransforms(transform_prediction_and_target, transform_target, transform_inference) ==
    IF transform_prediction_and_target # None
    THEN <<transform_prediction_and_target, Identity, transform_prediction_and_target>>
    ELSE IF transform_target # None
    THEN <<Identity, transform_inference, transform_target>>
    ELSE <<Identity, Identity, Identity>>

(***************************************************************************)
(* Inputs of the calls.                                                    *)
(***************************************************************************)
Labels == {"energy", "zenith"}
LossFunctions == {"MSELoss", "LogCoshLoss"}
AffineWeights == {1}
DataValues == {Pow10(1, 2), Pow10(-1, 0), Zero}
Predictions == {Pow10(1, 1), Zero}

\* A batch: the fields it holds, each with its raw value
Batches == UNION {[fields -> DataValues] : fields \in SUBSET Labels}

\* self._regularisation_loss: None or a number
NoneValue == [tag |-> "None", val |-> 0]
Number(v) == [tag |-> "number", val |-> v]

\* What a call returned
NoReturn == <<"no return">>

NoCall ==
    [op |-> "none", x |-> Zero, data |-> <<>>, raised |-> NoError,
     ret |-> NoReturn, transform_target_calls |-> 0, loss_function_calls |-> 0]

VARIABLES
    phase,      \* "new": before Task(...); "constructed"; "raised": __init__ raised
    args,       \* the transform arguments Task(...) was called with
    raised,     \* what __init__ raised
    _regularisation_loss,
    _target_label,
    _loss_function,
    _transform_prediction_training,
    _transform_prediction_inference,
    _transform_target,
    _inference,
    _affine,    \* the weight of the Linear layer: x |-> x * 10^_affine
    call        \* the last method call: its arguments and its outcome

taskvars ==
    <<phase, args, raised, _regularisation_loss, _target_label, _loss_function,
      _transform_prediction_training, _transform_prediction_inference,
      _transform_target, _inference, _affine, call>>

members ==
    <<_regularisation_loss, _target_label, _loss_function,
      _transform_prediction_training, _transform_prediction_inference,
      _transform_target, _inference, _affine>>

NoArgs ==
    [transform_prediction_and_target |-> None, transform_target |-> None,
     transform_inference |-> None]

TaskInit ==
    /\ phase = "new"
    /\ args = NoArgs
    /\ raised = NoError
    /\ _regularisation_loss = NoneValue
    /\ _target_label = None
    /\ _loss_function = None
    /\ _transform_prediction_training = None
    /\ _transform_prediction_inference = None
    /\ _transform_target = None
    /\ _inference = FALSE
    /\ _affine = 0
    /\ call = NoCall

\* Task.__init__ (lines 26-69)
Construct(target_label, loss_function, transform_prediction_and_target, transform_target, transform_inference, weight) ==
    LET error == Checks(transform_prediction_and_target, transform_target,
                        transform_inference)
        t == MemberTransforms(transform_prediction_and_target, transform_target,
                              transform_inference)
    IN  /\ phase = "new"
        /\ args' = [transform_prediction_and_target |-> transform_prediction_and_target,
                    transform_target |-> transform_target,
                    transform_inference |-> transform_inference]
        /\ raised' = error
        /\ IF error # NoError
           THEN /\ phase' = "raised"
                /\ UNCHANGED members
           ELSE /\ phase' = "constructed"
                /\ _regularisation_loss' = NoneValue
                /\ _target_label' = target_label
                /\ _loss_function' = loss_function
                /\ _transform_prediction_training' = t[1]
                /\ _transform_prediction_inference' = t[2]
                /\ _transform_target' = t[3]
                /\ _inference' = FALSE
                /\ _affine' = weight
        /\ UNCHANGED call

\* self._affine(x): the Linear layer on one element
affine(x) == Scale(x, _affine)

\* Task._transform_prediction (lines 77-82)
_transform_prediction(prediction) ==
    IF _inference
    THEN Call(_transform_prediction_inference, prediction)
    ELSE Call(_transform_prediction_training, prediction)

\* Task._forward (lines 83-85, abstract): the regression variant, the identity
_forward(x) == x

\* forward without the reset of line 73
forward_without_reset(x) ==
    /\ phase = "constructed"
    /\ call' = [NoCall EXCEPT !.op = "forward", !.x = x, !.raised = AttributeError]
    /\ UNCHANGED <<phase, args, raised, members>>

\* Task.forward (lines 71-76)
forward(x) ==
    /\ phase = "constructed"
    /\ _regularisation_loss' = Number(0)
    /\ IF "_transform_forward" \in TaskMethods
       THEN call' = [NoCall EXCEPT !.op = "forward", !.x = x,
                        !.ret = <<"prediction", _forward(_transform_prediction(affine(x)))>>]
       ELSE call' = [NoCall EXCEPT !.op = "forward", !.x = x,
                        !.raised = AttributeError]
    /\ UNCHANGED <<phase, args, raised, _target_label, _loss_function,
                   _transform_prediction_training, _transform_prediction_inference,
                   _transform_target, _inference, _affine>>

\* self._loss_function(pred, target) + self._regularisation_loss (line 92)
Loss(loss_function, pred, target, regularisation_loss) ==
    <<"loss", loss_function, pred, target, regularisation_loss.val>>

\* compute_loss reading an unset regularisation term as 0
compute_loss_none_as_zero(pred, data) ==
    /\ phase = "constructed"
    /\ LET c == [NoCall EXCEPT !.op = "compute_loss", !.x = pred, !.data = data]
       IN  IF _target_label \notin DOMAIN data
           THEN call' = [c EXCEPT !.raised = KeyError]
           ELSE call' = [c EXCEPT !.transform_target_calls = 2,
                                  !.loss_function_calls = 1,
                                  !.ret = Loss(_loss_function, pred,
                                      Call(_transform_target,
                                           Call(_transform_target, data[_target_label])),
                                      _regularisation_loss)]
    /\ UNCHANGED <<phase, args, raised, members>>

\* compute_loss reading an absent field as 0 instead of raising
compute_loss_call_missing_as_zero(pred, data) ==
    LET target == IF _target_label \in DOMAIN data THEN data[_target_label] ELSE Zero
        d == [NoCall EXCEPT !.op = "compute_loss", !.x = pred, !.data = data,
                            !.transform_target_calls = 2, !.loss_function_calls = 1]
    IN  IF _regularisation_loss = NoneValue
        THEN [d EXCEPT !.raised = TypeError]
        ELSE [d EXCEPT !.ret = Loss(_loss_function, pred,
                                   Call(_transform_target, Call(_transform_target, target)),
                                   _regularisation_loss)]

\* compute_loss transforming the target in Training mode only
compute_loss_call_by_mode(pred, data) ==
    LET c == [NoCall EXCEPT !.op = "compute_loss", !.x = pred, !.data = data]
    IN  IF _target_label \notin DOMAIN data
        THEN [c EXCEPT !.raised = KeyError]
        ELSE LET target0 == data[_target_label]
                 target2 == IF _inference THEN target0
                            ELSE Call(_transform_target, Call(_transform_target, target0))
                 d == [c EXCEPT !.transform_target_calls = 2,
                                !.loss_function_calls = 1]
             IN  IF _regularisation_loss = NoneValue
                 THEN [d EXCEPT !.raised = TypeError]
                 ELSE [d EXCEPT !.ret =
                          Loss(_loss_function, pred, target2, _regularisation_loss)]

\* Task.compute_loss (lines 87-93): what compute_loss(pred, data) does in the
\* current state: the exception it raises or the value it returns
compute_loss_call(pred, data) ==
    LET c == [NoCall EXCEPT !.op = "compute_loss", !.x = pred, !.data = data]
    IN  IF _target_label \notin DOMAIN data
        THEN [c EXCEPT !.raised = KeyError]
        ELSE LET target0 == data[_target_label]
                 target1 == Call(_transform_target, target0)
                 target2 == Call(_transform_target, target1)
                 d == [c EXCEPT !.transform_target_calls = 2,
                                !.loss_function_calls = 1]
             IN  IF _regularisation_loss = NoneValue
                 THEN [d EXCEPT !.raised = TypeError]
                 ELSE [d EXCEPT !.ret =
                          Loss(_loss_function, pred, target2, _regularisation_loss)]

\* Task.compute_loss (lines 87-93)
compute_loss(pred, data) ==
    /\ phase = "constructed"
    /\ call' = compute_loss_call(pred, data)
    /\ UNCHANGED <<phase, args, raised, members>>

\* inference replacing the training transform, as its docstring words it
inference_substituting ==
    /\ phase = "constructed"
    /\ _inference' = TRUE
    /\ _transform_prediction_training' = _transform_prediction_inference
    /\ call' = [NoCall EXCEPT !.op = "inference"]
    /\ UNCHANGED <<phase, args, raised, _regularisation_loss, _target_label,
                   _loss_function, _transform_prediction_inference,
                   _transform_target, _affine>>

\* inference as a toggle of the flag
inference_toggle ==
    /\ phase = "constructed"
    /\ _inference' = ~_inference
    /\ call' = [NoCall EXCEPT !.op = "inference"]
    /\ UNCHANGED <<phase, args, raised, _regularisation_loss, _target_label,
                   _loss_function, _transform_prediction_training,
                   _transform_prediction_inference, _transform_target, _affine>>

\* Task.inference (lines 95-98)
inference ==
    /\ phase = "constructed"
    /\ _inference' = TRUE
    /\ call' = [NoCall EXCEPT !.op = "inference"]
    /\ UNCHANGED <<phase, args, raised, _regularisation_loss, _target_label,
                   _loss_function, _transform_prediction_training,
                   _transform_prediction_inference, _transform_target, _affine>>

(***************************************************************************)
(* graphnet.utilities.logging: the process-wide 'graphnet' logger, the     *)
(* Logger class and RepeatFilter.                                          *)
(***************************************************************************)
\* logging.DEBUG .. logging.CRITICAL, by the Logger method that logs at it
levelno == [debug |-> 10, info |-> 20, warning |-> 30, error |-> 40, critical |-> 50]

\* RepeatFilter.nb_repeats_allowed (line 26)
nb_repeats_allowed == 20

\* Messages of the callers, and the two messages logging.py itself logs
Messages == {"a", "b"}
RepeatedMessages == {"a"}
NOTICE == "Will not print the below message again (20 repeats reached)."
WRITING == "Writing log to graphnet_<timestamp>.log"
AllMessages == Messages \cup {NOTICE, WRITING}
RecordLevels == {levelno.debug, levelno.info, levelno.warning}
LoggerLevels == {levelno.debug, levelno.info, levelno.warning}
Threads == {1, 2}

\* Bounds of the model
MaxLines == 21
MaxRepeats == 21
MaxLoggers == 2

NoFilterCall == [msg |-> "none", levelno |-> 0, count |-> 0, notice |-> FALSE, ret |-> TRUE]

VARIABLES
    handlers,     \* the handlers of the 'graphnet' logger, in the order added
    level,        \* the level of the 'graphnet' logger (0: not set)
    configured,   \* how many times _configure_root_logger has run
    stdout,       \* per message, the lines the stream handlers have written
    instances,    \* how many Logger objects have been constructed
    WARNINGS,     \* the module's set WARNINGS (line 17)
    warned,       \* per message, the self.warning calls warning_once has made
    once_callers, \* per message, the Logger objects whose warning_once got it
    _messages,    \* RepeatFilter._messages of the filter object in use
    filter_call,  \* the last RepeatFilter.filter call and its outcome
    pc,           \* per thread, where it stands in Logger() / warning_once
    local         \* per thread, the msg and log_folder of its running call

logvars ==
    <<handlers, level, configured, stdout, instances, WARNINGS, warned,
      once_callers, _messages, filter_call, pc, local>>

vars == <<taskvars, logvars>>

LogInit ==
    /\ handlers = <<>>
    /\ level = 0
    /\ configured = 0
    /\ stdout = [m \in AllMessages |-> 0]
    /\ instances = 0
    /\ WARNINGS = {}
    /\ warned = [m \in Messages |-> 0]
    /\ once_callers = [m \in Messages |-> {}]
    /\ _messages = [m \in Messages |-> 0]
    /\ filter_call = NoFilterCall
    /\ pc = [t \in Threads |-> "start"]
    /\ local = [t \in Threads |-> [msg |-> "a", log_folder |-> TRUE]]

Init == TaskInit /\ LogInit

\* The 'graphnet' logger as one value: what Logger._get_root_logger returns
root == [handlers |-> handlers, level |-> level, configured |-> configured,
         stdout |-> stdout]

StreamHandlers(h) == Cardinality({i \in 1..Len(h) : h[i] = "stream"})

\* logging.Logger.getEffectiveLevel: an unset level is the root's WARNING
getEffectiveLevel(r) == IF r.level = 0 THEN levelno.warning ELSE r.level

\* logging.Logger.hasHandlers (line 131)
hasHandlers(r) == Len(r.handlers) > 0

\* self._logger.log(level, msg): a record below the logger's level is dropped;
\* the logger has no filter (line 91 is commented out), so any other record
\* goes to every handler, and each stream handler writes one line.
log(r, lvl, msg) ==
    IF lvl >= getEffectiveLevel(r)
    THEN [r EXCEPT !.stdout[msg] = @ + StreamHandlers(r.handlers)]
    ELSE r

\* Logger._configure_root_logger (lines 81-125)
_configure_root_logger(r, log_folder) ==
    LET r1 == [r EXCEPT !.level = levelno.info,
                        !.handlers = Append(@, "stream"),
                        !.configured = @ + 1]
    IN  IF log_folder
        THEN log([r1 EXCEPT !.handlers = Append(@, "file")], levelno.info, WRITING)
        ELSE r1

\* Logger._make_sure_root_logger_is_configured (lines 127-132)
_make_sure_root_logger_is_configured(r, log_folder) ==
    IF ~hasHandlers(r) THEN _configure_root_logger(r, log_folder) ELSE r

\* Logger.__init__ (lines 134-154), name = None: the 'graphnet' logger itself
Logger__init__(r, lvl, log_folder) ==
    [_make_sure_root_logger_is_configured(r, log_folder) EXCEPT !.level = lvl]

\* The 'graphnet' logger becomes r
SetRoot(r) ==
    /\ handlers' = r.handlers
    /\ level' = r.level
    /\ configured' = r.configured
    /\ stdout' = r.stdout

\* Logger(level = lvl, log_folder = log_folder)
NewLogger(lvl, log_folder) ==
    /\ instances < MaxLoggers
    /\ SetRoot(Logger__init__(root, lvl, log_folder))
    /\ instances' = instances + 1
    /\ UNCHANGED <<WARNINGS, warned, once_callers, _messages, filter_call, pc, local>>

\* Logger.critical / error / warning / info / debug (lines 156-184) of the
\* Logger object self
Delegate(self, method, msg) ==
    /\ self \in 1..instances
    /\ stdout[msg] < MaxLines
    /\ SetRoot(log(root, levelno[method], msg))
    /\ UNCHANGED <<instances, WARNINGS, warned, once_callers, _messages,
                   filter_call, pc, local>>

critical(self, msg) == Delegate(self, "critical", msg)
error(self, msg) == Delegate(self, "error", msg)
warning(self, msg) == Delegate(self, "warning", msg)
info(self, msg) == Delegate(self, "info", msg)
debug(self, msg) == Delegate(self, "debug", msg)

\* warning_once without the insertion of line 196
warning_once_without_add(self, msg) ==
    /\ self \in 1..instances
    /\ once_callers' = [once_callers EXCEPT ![msg] = @ \cup {self}]
    /\ IF msg \in WARNINGS
       THEN UNCHANGED <<handlers, level, configured, stdout, WARNINGS, warned>>
       ELSE /\ warned[msg] < MaxLoggers
            /\ SetRoot(log(root, levelno.warning, msg))
            /\ warned' = [warned EXCEPT ![msg] = @ + 1]
            /\ UNCHANGED WARNINGS
    /\ UNCHANGED <<instances, _messages, filter_call, pc, local>>

\* Logger.warning_once (lines 186-196), run without interruption
warning_once(self, msg) ==
    /\ self \in 1..instances
    /\ once_callers' = [once_callers EXCEPT ![msg] = @ \cup {self}]
    /\ IF msg \in WARNINGS
       THEN UNCHANGED <<handlers, level, configured, stdout, WARNINGS, warned>>
       ELSE /\ SetRoot(log(root, levelno.warning, msg))
            /\ warned' = [warned EXCEPT ![msg] = @ + 1]
            /\ WARNINGS' = WARNINGS \cup {msg}
    /\ UNCHANGED <<instances, _messages, filter_call, pc, local>>

\* RepeatFilter.filter (lines 28-40) called with a record of message msg and
\* level lvl; Logger() is Logger(level = logging.INFO, log_folder = LOG_FOLDER)
filter(msg, lvl) ==
    LET count == _messages[msg] + 1
        r == IF count = nb_repeats_allowed
             THEN log(Logger__init__(root, levelno.info, TRUE), lvl, NOTICE)
             ELSE root
    IN  /\ _messages[msg] < MaxRepeats
        /\ _messages' = [_messages EXCEPT ![msg] = count]
        /\ SetRoot(r)
        /\ instances' = IF count = nb_repeats_allowed THEN instances + 1 ELSE instances
        /\ filter_call' = [msg |-> msg, levelno |-> lvl, count |-> count,
                           notice |-> r.stdout[NOTICE] > stdout[NOTICE],
                           ret |-> count <= nb_repeats_allowed]
        /\ UNCHANGED <<WARNINGS, warned, once_callers, pc, local>>

(***************************************************************************)
(* Threads.  Each thread constructs its first Logger and then calls        *)
(* warning_once again and again; a thread can be preempted between the     *)
(* statements of Logger.__init__ and of warning_once.                      *)
(***************************************************************************)
\* line 131: if not cls._get_root_logger().hasHandlers()
hasHandlers_step(t, log_folder) ==
    /\ pc[t] = "start"
    /\ local' = [local EXCEPT ![t].log_folder = log_folder]
    /\ pc' = [pc EXCEPT ![t] = IF hasHandlers(root) THEN "getLogger" ELSE "configure"]
    /\ UNCHANGED <<handlers, level, configured, stdout, instances, WARNINGS,
                   warned, once_callers, _messages, filter_call>>

\* line 132: cls._configure_root_logger(log_folder)
configure_step(t) ==
    /\ pc[t] = "configure"
    /\ SetRoot(_configure_root_logger(root, local[t].log_folder))
    /\ pc' = [pc EXCEPT ![t] = "getLogger"]
    /\ UNCHANGED <<instances, WARNINGS, warned, once_callers, _messages,
                   filter_call, local>>

\* lines 146-154: logger.setLevel(level), the adapter
getLogger_step(t) ==
    /\ pc[t] = "getLogger"
    /\ level' = levelno.info
    /\ instances' = instances + 1
    /\ pc' = [pc EXCEPT ![t] = "ready"]
    /\ UNCHANGED <<handlers, configured, stdout, WARNINGS, warned, once_callers,
                   _messages, filter_call, local>>

\* lines 189-190: if msg in WARNINGS: return
in_WARNINGS_step(t, msg) ==
    /\ pc[t] = "ready"
    /\ local' = [local EXCEPT ![t].msg = msg]
    /\ pc' = [pc EXCEPT ![t] = IF msg \in WARNINGS THEN "ready" ELSE "warning"]
    /\ UNCHANGED <<handlers, level, configured, stdout, instances, WARNINGS,
                   warned, once_callers, _messages, filter_call>>

\* lines 192-195: self.warning(msg, stacklevel=4)
warning_step(t) ==
    /\ pc[t] = "warning"
    /\ SetRoot(log(root, levelno.warning, local[t].msg))
    /\ warned' = [warned EXCEPT ![local[t].msg] = @ + 1]
    /\ pc' = [pc EXCEPT ![t] = "add"]
    /\ UNCHANGED <<instances, WARNINGS, once_callers, _messages, filter_call, local>>

\* line 196: WARNINGS.add(msg)
add_step(t) ==
    /\ pc[t] = "add"
    /\ WARNINGS' = WARNINGS \cup {local[t].msg}
    /\ pc' = [pc EXCEPT ![t] = "ready"]
    /\ UNCHANGED <<handlers, level, configured, stdout, instances, warned,
                   once_callers, _messages, filter_call, local>>

(***************************************************************************)
(* Specifications.                                                         *)
(***************************************************************************)
\* One Task: its construction and its calls
Next ==
    \/ /\ \E target_label \in Labels, loss_function \in LossFunctions,
             transform_prediction_and_target \in OptCallables,
             transform_target \in OptCallables,
             transform_inference \in OptCallables, weight \in AffineWeights :
               Construct(target_label, loss_function, transform_prediction_and_target,
                         transform_target, transform_inference, weight)
       /\ UNCHANGED logvars
    \/ /\ \E x \in DataValues : forward(x)
       /\ UNCHANGED logvars
    \/ /\ \E pred \in Predictions, data \in Batches : compute_loss(pred, data)
       /\ UNCHANGED logvars
    \/ /\ inference
       /\ UNCHANGED logvars

Spec == Init /\ [][Next]_vars

\* One thread constructing Logger objects and logging through them
NextLogger ==
    \/ /\ \E lvl \in LoggerLevels, log_folder \in BOOLEAN : NewLogger(lvl, log_folder)
       /\ UNCHANGED taskvars
    \/ /\ \E self \in 1..MaxLoggers, msg \in RepeatedMessages : critical(self, msg)
       /\ UNCHANGED taskvars
    \/ /\ \E self \in 1..MaxLoggers, msg \in RepeatedMessages : error(self, msg)
       /\ UNCHANGED taskvars
    \/ /\ \E self \in 1..MaxLoggers, msg \in RepeatedMessages : warning(self, msg)
       /\ UNCHANGED taskvars
    \/ /\ \E self \in 1..MaxLoggers, msg \in RepeatedMessages : info(self, msg)
       /\ UNCHANGED taskvars
    \/ /\ \E self \in 1..MaxLoggers, msg \in RepeatedMessages : debug(self, msg)
       /\ UNCHANGED taskvars
    \/ /\ \E self \in 1..MaxLoggers, msg \in Messages : warning_once(self, msg)
       /\ UNCHANGED taskvars

SpecLogger == Init /\ [][NextLogger]_vars

\* One RepeatFilter object handed a sequence of records
NextFilter ==
    /\ \E msg \in Messages, lvl \in RecordLevels : filter(msg, lvl)
    /\ UNCHANGED taskvars

SpecFilter == Init /\ [][NextFilter]_vars

\* Several threads, each constructing a Logger and calling warning_once
NextThreads ==
    \/ /\ \E t \in Threads, log_folder \in BOOLEAN : hasHandlers_step(t, log_folder)
       /\ UNCHANGED taskvars
    \/ /\ \E t \in Threads : configure_step(t)
       /\ UNCHANGED taskvars
    \/ /\ \E t \in Threads : getLogger_step(t)
       /\ UNCHANGED taskvars
    \/ /\ \E t \in Threads, msg \in Messages : in_WARNINGS_step(t, msg)
       /\ UNCHANGED taskvars
    \/ /\ \E t \in Threads : warning_step(t)
       /\ UNCHANGED taskvars
    \/ /\ \E t \in Threads : add_step(t)
       /\ UNCHANGED taskvars

SpecThreads == Init /\ [][NextThreads]_vars

(***************************************************************************)
(* Properties.                                                             *)
(***************************************************************************)
ConfigurationErrors == {AssertAtMostOne, AssertBoth, AssertNotInverse}

\* The prediction transform the mode selects
SelectedPredictionTransform ==
    IF _inference THEN _transform_prediction_inference
    ELSE _transform_prediction_training

\* C1: every forward(x) returns _forward(P(affine(x))), P the training
\* prediction transform in Training mode and the inference prediction
\* transform in Inference mode.
C1_ForwardAppliesSelectedTransform ==
    call.op = "forward" =>
        /\ call.raised = NoError
        /\ call.ret = <<"prediction",
                        _forward(Call(SelectedPredictionTransform, affine(call.x)))>>

\* C2: the mode is Training right after construction; it changes only by
\* inference(), only from Training to Inference; once Inference it stays
\* Inference, and inference() in Inference mode changes no member.
C2_ModeOneWay ==
    [][/\ (phase = "new" /\ phase' = "constructed" => ~_inference')
       /\ (_inference => _inference')
       /\ (_inference' # _inference => call'.op = "inference")
       /\ (call'.op = "inference" /\ _inference => members' = members)]_vars

C2_Witness == _inference /\ call.op = "forward"

\* C3: compute_loss(pred, data) returns lossFunction(pred, T(target)) + R with
\* the target transform T applied exactly once to data[target_label].
C3_TargetTransformedOnce ==
    (call.op = "compute_loss" /\ call.raised = NoError) =>
        call.ret = Loss(_loss_function, call.x,
                        Call(_transform_target, call.data[_target_label]),
                        _regularisation_loss)

\* C4: every forward call sets the regularisation term to exactly 0, whatever
\* it held before (None after construction included).
C4_ForwardResets ==
    [][call'.op = "forward" => _regularisation_loss' = Number(0)]_vars

C4_Witness == call.op = "forward" /\ _regularisation_loss = Number(0)

\* C5: a construction given both transform_prediction_and_target and
\* transform_target raises the configuration error, whatever
\* transform_inference is, and leaves no task to call.
C5_BothSchemesRaise ==
    (phase # "new" /\ args.transform_prediction_and_target # None
                   /\ args.transform_target # None) =>
        /\ phase = "raised"
        /\ raised = AssertAtMostOne
        /\ call = NoCall
        /\ _transform_target = None

C5_Witness ==
    /\ phase = "raised"
    /\ raised = AssertAtMostOne
    /\ args.transform_inference # None

\* C6: a construction given exactly one of transform_target and
\* transform_inference raises a configuration error, with or without
\* transform_prediction_and_target.
C6_IncompletePairRaises ==
    (phase # "new" /\ (args.transform_target # None) # (args.transform_inference # None)) =>
        /\ phase = "raised"
        /\ raised \in ConfigurationErrors

C6_Witness ==
    /\ phase = "raised"
    /\ raised = AssertBoth
    /\ args.transform_prediction_and_target # None
    /\ args.transform_inference # None

\* C7: a construction given a (transform_target, transform_inference) pair whose
\* round trip fails at a test point with a finite transform_target value raises
\* a configuration error.
C7_NonInversePairRaisesConfigurationError ==
    (/\ phase # "new"
     /\ args.transform_target # None
     /\ args.transform_inference # None
     /\ ~allclose(args.transform_target, args.transform_inference)) =>
        /\ phase = "raised"
        /\ raised \in ConfigurationErrors

\* C8: a construction given a (transform_target, transform_inference) pair
\* succeeds whenever the round trip holds at every test point whose
\* transform_target value is finite.
C8_InversePairConstructs ==
    (/\ phase # "new"
     /\ args.transform_prediction_and_target = None
     /\ args.transform_target # None
     /\ args.transform_inference # None
     /\ allclose(args.transform_target, args.transform_inference)) =>
        phase = "constructed"

\* C9: after a successful construction (training prediction, inference
\* prediction, target) is (f, identity, f) for
\* transform_prediction_and_target = f, (identity, i, t) for the pair (t, i),
\* and (identity, identity, identity) with nothing supplied.
C9_MemberTransforms ==
    /\ phase = "constructed" =>
         <<_transform_prediction_training, _transform_prediction_inference,
           _transform_target>> =
             IF args.transform_prediction_and_target # None
             THEN <<args.transform_prediction_and_target, "id",
                    args.transform_prediction_and_target>>
             ELSE IF args.transform_target # None
             THEN <<"id", args.transform_inference, args.transform_target>>
             ELSE <<"id", "id", "id">>
    /\ \A t \in Callables, i \in Callables :
         MemberTransforms(None, t, i) = <<"id", i, t>>

C9_Witness ==
    /\ phase = "constructed"
    /\ args.transform_prediction_and_target = "mul10"
    /\ _transform_prediction_training = "mul10"
    /\ _transform_prediction_inference = "id"

\* C10: compute_loss on a task on which forward was never called completes and
\* returns the loss with a zero regularisation term.
C10_FreshComputeLossCompletes ==
    (/\ call.op = "compute_loss"
     /\ _regularisation_loss = NoneValue
     /\ _target_label \in DOMAIN call.data) =>
        /\ call.raised = NoError
        /\ call.ret[1] = "loss"
        /\ call.ret[5] = 0

\* C10, amended: with target_label in the batch, compute_loss raises TypeError
\* while the regularisation term is still None (no forward call yet), and
\* otherwise returns the loss plus the term the last forward call left.
C10_FreshComputeLossRaises ==
    (call.op = "compute_loss" /\ _target_label \in DOMAIN call.data) =>
        IF _regularisation_loss = NoneValue
        THEN call.raised = TypeError /\ call.ret = NoReturn
        ELSE /\ call.raised = NoError
             /\ call.ret[1] = "loss"
             /\ call.ret[5] = _regularisation_loss.val

C10_Witness ==
    /\ call.op = "compute_loss"
    /\ call.raised = TypeError
    /\ _regularisation_loss = NoneValue

\* C11: with target_label absent from the batch compute_loss raises the
\* missing-field error, calls neither the target transform nor the loss
\* function, and leaves the mode and the regularisation term as they were.
C11_MissingLabelRaises ==
    [][(call'.op = "compute_loss" /\ _target_label \notin DOMAIN call'.data) =>
          /\ call'.raised = KeyError
          /\ call'.ret = NoReturn
          /\ call'.transform_target_calls = 0
          /\ call'.loss_function_calls = 0
          /\ _inference' = _inference
          /\ _regularisation_loss' = _regularisation_loss]_vars

C11_Witness ==
    /\ call.op = "compute_loss"
    /\ call.raised = KeyError
    /\ _regularisation_loss = Number(0)
    /\ _inference

\* C17: no forward, compute_loss or inference call changes the three
\* transforms, the target label or the loss function; compute_loss leaves the
\* mode and the regularisation term unchanged, inference() the regularisation
\* term.
C17_Frame ==
    [][phase = "constructed" =>
          /\ _transform_prediction_training' = _transform_prediction_training
          /\ _transform_prediction_inference' = _transform_prediction_inference
          /\ _transform_target' = _transform_target
          /\ _target_label' = _target_label
          /\ _loss_function' = _loss_function
          /\ (call'.op = "compute_loss" =>
                /\ _inference' = _inference
                /\ _regularisation_loss' = _regularisation_loss)
          /\ (call'.op = "inference" =>
                _regularisation_loss' = _regularisation_loss)]_vars

C17_Witness ==
    /\ call.op = "inference"
    /\ _regularisation_loss = Number(0)
    /\ _transform_prediction_training = "mul10"
    /\ _transform_prediction_inference = "id"

\* C18: the invertibility check is entered only in a construction given the
\* (transform_target, transform_inference) pair; a construction given only
\* transform_prediction_and_target, or no transform, succeeds whatever the
\* transform is; no forward, compute_loss or inference call raises a
\* configuration error.
C18_CheckOnlyForPair ==
    /\ (phase # "new" /\ args.transform_target = None
                      /\ args.transform_inference = None) =>
          phase = "constructed" /\ raised = NoError
    /\ raised \in {AssertNotInverse, NameError} =>
          /\ args.transform_target # None
          /\ args.transform_inference # None
          /\ args.transform_prediction_and_target = None
    /\ call.raised \notin ConfigurationErrors \cup {NameError}

C18_Witness ==
    /\ phase = "constructed"
    /\ args.transform_prediction_and_target = "abs"
    /\ call.op = "compute_loss"
    /\ call.raised = NoError

\* C19: what compute_loss returns for a given pred and batch is the same
\* before and after inference() is called.
C19_LossIndependentOfMode ==
    [][(call'.op = "inference" /\ ~_inference /\ _inference') =>
          \A pred \in Predictions, data \in Batches :
              compute_loss_call(pred, data)' = compute_loss_call(pred, data)]_vars

C19_Witness ==
    /\ _inference
    /\ call.op = "compute_loss"
    /\ call.raised = NoError
    /\ _transform_target = "mul10"
    /\ call.ret[4] = Pow10(1, 4)

\* C12: through the Logger an identical message is emitted at most 20 times;
\* every further repeat is dropped.
C12_AtMostTwentyLines ==
    \A m \in Messages : stdout[m] <= nb_repeats_allowed

\* C13: the filter emits the 'will not print again' notice for a message at
\* the call that takes its count to 20, and at no other call.
C13_NoticeExactlyAtCap ==
    filter_call.msg # "none" =>
        (filter_call.notice <=> filter_call.count = nb_repeats_allowed)

\* C14: over any sequence of warning_once calls through any Logger objects,
\* the first warning_once(m) logs m as one warning and puts m in WARNINGS;
\* every later warning_once(m) logs nothing: m is logged at most once.
C14_WarnedOnce ==
    /\ [](\A m \in Messages : warned[m] <= 1 /\ (m \in WARNINGS <=> warned[m] = 1))
    /\ [][\A m \in Messages :
            /\ m \in WARNINGS => (m \in WARNINGS' /\ warned'[m] = warned[m])
            /\ warned'[m] # warned[m] =>
                 /\ m \in WARNINGS'
                 /\ stdout'[m] = stdout[m] + StreamHandlers(handlers)]_vars

C14_Witness ==
    /\ once_callers["a"] = {1, 2}
    /\ "a" \in WARNINGS
    /\ warned["a"] = 1
    /\ stdout["a"] = 1

\* C15: with several threads calling warning_once concurrently, a message is
\* still logged at most once.
C15_WarnedOnceConcurrently ==
    \A m \in Messages : warned[m] <= 1

\* C16: over any Logger constructions, concurrent first ones included,
\* _configure_root_logger runs once and one stream handler is attached.
C16_ConfiguredOnce ==
    /\ configured <= 1
    /\ StreamHandlers(handlers) <= 1
    /\ instances > 0 => configured = 1

====
